---- MODULE Spec2Model ----
(***************************************************************************)
(* Model of the IPC debugger server: the in-memory store (MemStorage), the *)
(* REST routes and the WebSocket hub of registerRoutes.                    *)
(*                                                                         *)
(* Every route and WebSocket handler is an async function.  A handler runs *)
(* without interruption from one `await` to the next; at an `await` it is  *)
(* suspended and any other handler may run.  A task of the model is one    *)
(* invocation of a handler, its pc is the await it is suspended at, and    *)
(* one action is the code between two awaits.  An awaited call that has no *)
(* await of its own (most of MemStorage) runs when it is called, so its    *)
(* read or write belongs to the step that ends at that await.  Awaits that *)
(* are followed by no access to shared state (a return through a caller,   *)
(* getAverageResponseTime) are merged into the neighbouring step.          *)
(*                                                                         *)
(* Time is counted in minutes.  The nullable optional fields of a record   *)
(* that no operation reads (sourceName, targetName, size, data) are left   *)
(* out; avgResponseTime is a random placeholder that does not depend on    *)
(* the store and is represented by one sample.                             *)
(*                                                                         *)
(* Spec is the whole server; SpecStore is its REST write routes alone.     *)
(* SpecList and SpecFilter apply the two event queries to stores drawn     *)
(* from bounded sets; SpecTop and SpecActive call the operations of        *)
(* MemStorage one after the other on the seeded store, SpecActive with a   *)
(* clock that advances.                                                    *)
(***************************************************************************)
EXTENDS Integers, Sequences, FiniteSets, TLC

\* ------------------------------------------------------------------ bounds
\* Number of requests and inbound frames of one run.
MaxTasks == 2
\* Number of handlers that may be suspended at an await at the same time.
MaxActive == 2
\* Number of WebSocket observers that may connect.
MaxObservers == 1
\* Number of events of a store drawn for the read routes.
MaxEvents == 4
\* Number of distinct timestamps of the events of a drawn store.
MaxStamp == 3
\* Number of events of a store drawn for the filter route.
MaxFiltered == 2
\* Number of createEvent and of createProcess calls of one run of the store
\* operations.
MaxIngest == 4
MaxRegistered == 2
\* Number of steps of the clock in one run of the store operations.
MaxTicks == 3

Observers == 1..MaxObservers

\* ------------------------------------------------------- program constants
\* new Date() at construction, in minutes (any value >= 21 keeps the seeded
\* timestamps positive).
StartTime == 100
\* The trailing window of getActiveProcessCount: 60 * 60 * 1000 ms.
OneHour == 60
\* The spacing of the seeded events: i * 3 minutes.
SeedSpacing == 3
\* getEvents(100, 0) of the snapshot and the route's default limit.
DefaultLimit == 100
\* getTopProcesses(5) of the stats.
TopLimit == 5
\* One sample of Math.floor(Math.random() * 200) + 100.
AvgResponseSample == 100

MessageTypes ==
    {"SHARED_MEMORY", "PIPE", "SOCKET", "MESSAGE_QUEUE", "SIGNAL", "REQUEST",
     "RESPONSE", "NOTIFICATION"}

StatusTypes == {"SUCCESS", "ERROR", "PENDING"}

\* absent: the names of the fields an input object does not carry
\* (undefined).
sampleProcesses ==
    << [pid |-> 1234, name |-> "chrome",   type |-> "browser",       messageCount |-> 8,  absent |-> {}],
       [pid |-> 2345, name |-> "firefox",  type |-> "browser",       messageCount |-> 5,  absent |-> {}],
       [pid |-> 3456, name |-> "vscode",   type |-> "editor",        messageCount |-> 12, absent |-> {}],
       [pid |-> 4567, name |-> "slack",    type |-> "communication", messageCount |-> 7,  absent |-> {}],
       [pid |-> 5678, name |-> "terminal", type |-> "system",        messageCount |-> 3,  absent |-> {}] >>

sampleEvents ==
    << [sourcePid |-> 1234, targetPid |-> 3456, messageType |-> "REQUEST",      status |-> "SUCCESS"],
       [sourcePid |-> 3456, targetPid |-> 1234, messageType |-> "RESPONSE",     status |-> "SUCCESS"],
       [sourcePid |-> 2345, targetPid |-> 5678, messageType |-> "REQUEST",      status |-> "ERROR"],
       [sourcePid |-> 4567, targetPid |-> 1234, messageType |-> "NOTIFICATION", status |-> "SUCCESS"],
       [sourcePid |-> 3456, targetPid |-> 5678, messageType |-> "REQUEST",      status |-> "SUCCESS"],
       [sourcePid |-> 1234, targetPid |-> 4567, messageType |-> "NOTIFICATION", status |-> "SUCCESS"],
       [sourcePid |-> 2345, targetPid |-> 3456, messageType |-> "REQUEST",      status |-> "SUCCESS"],
       [sourcePid |-> 5678, targetPid |-> 3456, messageType |-> "RESPONSE",     status |-> "SUCCESS"] >>

\* ------------------------------------------------------------------ inputs
\* A request body: the fields it carries and the names of the fields it
\* lacks (or carries with the wrong type).  insertProcessSchema omits
\* messageCount, so a parsed body never carries one.
ProcessBodies ==
    { [pid |-> 100, name |-> "alpha", type |-> "", messageCount |-> 0,
       absent |-> {"type", "messageCount"}],
      [pid |-> 100, name |-> "", type |-> "", messageCount |-> 0,
       absent |-> {"name", "type", "messageCount"}] }

EventBodies ==
    { [sourcePid |-> 100, targetPid |-> 1234, messageType |-> "REQUEST",
       status |-> "SUCCESS", absent |-> {}],
      [sourcePid |-> 1234, targetPid |-> 100, messageType |-> "BOGUS",
       status |-> "SUCCESS", absent |-> {}],
      [sourcePid |-> 100, targetPid |-> 1234, messageType |-> "REQUEST",
       status |-> "BOGUS", absent |-> {}],
      [sourcePid |-> 100, targetPid |-> 1234, messageType |-> "REQUEST",
       status |-> "SUCCESS", absent |-> {"status"}] }

\* An inbound WebSocket frame: whether it is JSON, whether it has a string
\* type, its type and its data.
NoBody ==
    [sourcePid |-> 0, targetPid |-> 0, messageType |-> "", status |-> "", absent |-> {}]

Frames ==
    { [json |-> FALSE, typed |-> FALSE, type |-> "", data |-> NoBody],
      [json |-> TRUE, typed |-> FALSE, type |-> "", data |-> NoBody],
      [json |-> TRUE, typed |-> TRUE, type |-> "ping", data |-> NoBody] }
    \cup { [json |-> TRUE, typed |-> TRUE, type |-> "create_event", data |-> b] :
           b \in EventBodies }

\* ------------------------------------------------------------ schema (zod)
\* insertProcessSchema.parse: pid and name are required.
insertProcessSchemaAccepts(body) == body.absent \cap {"pid", "name"} = {}

\* A schema whose fields are all optional.
insertIpcEventSchemaPartial(body) == TRUE

\* insertIpcEventSchema.parse: sourcePid, targetPid, messageType and status
\* are required; messageType and status are text columns, so any string
\* passes.
insertIpcEventSchemaAccepts(body) ==
    body.absent \cap {"sourcePid", "targetPid", "messageType", "status"} = {}

\* wsMessageSchema.parse after JSON.parse: an object with a string type.
wsMessageSchemaAccepts(frame) == frame.json /\ frame.typed

\* ------------------------------------------------------------- MemStorage
\* The maps are kept as sequences in Map iteration (insertion) order.

\* Array.from(map.values()).find(p => p.pid === pid): the id of the first
\* process with that pid, 0 for undefined.
getProcessByPid(procs, pid) ==
    LET hits == {i \in 1..Len(procs) : procs[i].pid = pid}
    IN  IF hits = {} THEN 0
        ELSE procs[CHOOSE i \in hits : \A j \in hits : i <= j].id

\* createProcess: the record stored under the next id; an undefined type
\* becomes null, an undefined messageCount 0.
createProcess(insertProcess, id, startTime) ==
    [id |-> id, name |-> insertProcess.name, pid |-> insertProcess.pid,
     type |-> IF "type" \in insertProcess.absent THEN "null" ELSE insertProcess.type,
     startTime |-> startTime,
     messageCount |-> IF "messageCount" \in insertProcess.absent THEN 0
                      ELSE insertProcess.messageCount]

\* An update that raises the count of every record.
updateProcessMessageCountAll(procs, id, increment) ==
    [i \in 1..Len(procs) |->
        IF id # 0
        THEN [procs[i] EXCEPT !.messageCount = procs[i].messageCount + increment]
        ELSE procs[i]]

\* updateProcessMessageCount after its await: the found record's count is
\* incremented in place (no record: nothing).
updateProcessMessageCount(procs, id, increment) ==
    [i \in 1..Len(procs) |->
        IF procs[i].id = id
        THEN [procs[i] EXCEPT !.messageCount = procs[i].messageCount + increment]
        ELSE procs[i]]

\* A createEvent that gives a record stored after the first ingested one
\* the id of its predecessor.
createEventReusing(insertEvent, id, timestamp) ==
    [id |-> IF id > Len(sampleEvents) + 1 THEN id - 1 ELSE id, timestamp |-> timestamp, sourcePid |-> insertEvent.sourcePid,
     targetPid |-> insertEvent.targetPid, messageType |-> insertEvent.messageType,
     status |-> insertEvent.status]

\* createEvent up to its await: the record stored under the next id.
createEvent(insertEvent, id, timestamp) ==
    [id |-> id, timestamp |-> timestamp, sourcePid |-> insertEvent.sourcePid,
     targetPid |-> insertEvent.targetPid, messageType |-> insertEvent.messageType,
     status |-> insertEvent.status]

\* Array.prototype.sort with (a, b) => key(b) - key(a): a stable sort,
\* descending by key, written as an insertion sort over [k, v] pairs.
RECURSIVE insertDesc(_, _)
insertDesc(sorted, x) ==
    IF sorted = <<>> THEN <<x>>
    ELSE IF sorted[Len(sorted)].k >= x.k THEN Append(sorted, x)
    ELSE Append(insertDesc(SubSeq(sorted, 1, Len(sorted) - 1), x),
                sorted[Len(sorted)])

RECURSIVE sortDesc(_)
sortDesc(s) ==
    IF s = <<>> THEN <<>>
    ELSE insertDesc(sortDesc(SubSeq(s, 1, Len(s) - 1)), s[Len(s)])

\* Array.prototype.slice(from, to) with 0-based bounds.
slice(s, from, to) ==
    SubSeq(s, from + 1, IF to < Len(s) THEN to ELSE Len(s))

\* getEvents: all events sorted by timestamp descending, then sliced.
getEvents(evs, limit, offset) ==
    LET sorted == sortDesc([i \in 1..Len(evs) |-> [k |-> evs[i].timestamp, v |-> evs[i]]])
    IN  slice([i \in 1..Len(sorted) |-> sorted[i].v], offset, offset + limit)

\* getTopProcesses: all processes sorted by messageCount descending, then
\* sliced.
getTopProcesses(procs, limit) ==
    LET sorted == sortDesc([i \in 1..Len(procs) |-> [k |-> procs[i].messageCount, v |-> procs[i]]])
    IN  slice([i \in 1..Len(sorted) |-> sorted[i].v], 0, limit)

getTotalMessageCount(evs) == Len(evs)

\* A count whose window leaves out the instant one hour ago.
getActiveProcessCountStrict(evs, clock) ==
    LET recent == {i \in 1..Len(evs) : evs[i].timestamp > clock - OneHour}
    IN  Cardinality({evs[i].sourcePid : i \in recent} \cup
                    {evs[i].targetPid : i \in recent})

\* getActiveProcessCount: the distinct source and target pids of the
\* events whose timestamp is not before clock - one hour.
getActiveProcessCount(evs, clock) ==
    LET recent == {i \in 1..Len(evs) : evs[i].timestamp >= clock - OneHour}
    IN  Cardinality({evs[i].sourcePid : i \in recent} \cup
                    {evs[i].targetPid : i \in recent})

\* A clear that empties the event map and leaves the counts.
clearEventsOnly(procs) == procs

\* A clear that drops the process records with the events.
clearEventsAndProcesses(procs) == <<>>

\* clearEvents: the counts of all processes after the reset (the event map
\* is emptied by the same call).
clearEvents(procs) ==
    [i \in 1..Len(procs) |-> [procs[i] EXCEPT !.messageCount = 0]]

\* ---------------------------------------------------------- the seeded store
\* initializeProcesses: the five createProcess calls, then the eight
\* createEvent calls, each followed by its increment.
seededProcesses ==
    [i \in 1..Len(sampleProcesses) |-> createProcess(sampleProcesses[i], i, StartTime)]

seededEvents ==
    [i \in 1..Len(sampleEvents) |->
        createEvent(sampleEvents[i], i, StartTime - (i - 1) * SeedSpacing)]

RECURSIVE seedCounts(_, _)
seedCounts(procs, k) ==
    IF k = 0 THEN procs
    ELSE LET before == seedCounts(procs, k - 1)
         IN  updateProcessMessageCount(
                 before, getProcessByPid(before, sampleEvents[k].sourcePid), 1)

\* ------------------------------------------------------------------- state
VARIABLES
    processes,          \* MemStorage.processes, in insertion order
    events,             \* MemStorage.events, in insertion order
    processCurrentId,   \* MemStorage.processCurrentId
    eventCurrentId,     \* MemStorage.eventCurrentId
    now,                \* the clock read by new Date() and Date.now(); the
                        \* requests of one run arrive within one minute
    clients,            \* the Set of connected sockets
    readyState,         \* readyState of each observer's socket
    tasks,              \* the suspended handler invocations, in start order
    sent,               \* per observer, the messages sent to it
    responses,          \* the HTTP responses, in order
    received,           \* the last inbound WebSocket frame
    started,            \* number of requests and inbound frames so far
    accepted,           \* history: the create-event requests that passed validation
    clearCount          \* history: number of clearEvents calls so far

storeVars == <<processes, events, processCurrentId, eventCurrentId>>

vars ==
    <<processes, events, processCurrentId, eventCurrentId, now, clients,
      readyState, tasks, sent, responses, received, started, accepted, clearCount>>

NoEvent ==
    [id |-> 0, timestamp |-> 0, sourcePid |-> 0, targetPid |-> 0,
     messageType |-> "", status |-> ""]

NoFrame == [json |-> FALSE, typed |-> FALSE, type |-> "", data |-> NoBody]

\* A suspended handler: its kind, the await it is suspended at and its
\* local variables.  processes and topProcesses hold references to process
\* records (their ids); epoch, born and top are history: clearCount when the
\* events were read and when newEvent was stored, and what getTopProcesses(5)
\* returns in the state the handler reads the last of its stats from.
Task(kind, pc, ws, data) ==
    [kind |-> kind, pc |-> pc, ws |-> ws, data |-> data,
     first |-> NoEvent, newEvent |-> NoEvent, process |-> 0,
     processes |-> <<>>, events |-> <<>>, totalMessages |-> 0,
     activeProcesses |-> 0, topProcesses |-> <<>>, epoch |-> 0, born |-> 0,
     top |-> <<>>]

RemoveAt(s, i) == SubSeq(s, 1, i - 1) \o SubSeq(s, i + 1, Len(s))

Idle == tasks = <<>>

\* A new handler may start.
CanStart == Len(tasks) < MaxActive

\* JSON.stringify of an array of process references: the records as they
\* are when the message is built.
serialize(procs, refs) == [i \in 1..Len(refs) |-> procs[refs[i]]]

refsOf(procs) == [i \in 1..Len(procs) |-> procs[i].id]

\* A fan-out that does not look at readyState.
broadcastAll(log, cls, state, message) ==
    [o \in Observers |-> IF o \in cls THEN Append(log[o], message) ELSE log[o]]

\* broadcast: the message is appended to the log of every client whose
\* socket is OPEN.
broadcast(log, cls, state, message) ==
    [o \in Observers |->
        IF o \in cls /\ state[o] = "OPEN" THEN Append(log[o], message) ELSE log[o]]

\* sendToClient: to one client, if its socket is OPEN.
sendToClient(log, state, client, message) ==
    [o \in Observers |->
        IF o = client /\ state[o] = "OPEN" THEN Append(log[o], message) ELSE log[o]]

Message(type, data) == [type |-> type, data |-> data]

Stats(totalMessages, activeProcesses, topProcesses) ==
    [totalMessages |-> totalMessages, activeProcesses |-> activeProcesses,
     avgResponseTime |-> AvgResponseSample, topProcesses |-> topProcesses]

Audience == {o \in clients : readyState[o] = "OPEN"}

Init ==
    /\ processes = seedCounts(seededProcesses, Len(sampleEvents))
    /\ events = seededEvents
    /\ processCurrentId = Len(sampleProcesses) + 1
    /\ eventCurrentId = Len(sampleEvents) + 1
    /\ now = StartTime
    /\ clients = {}
    /\ readyState = [o \in Observers |-> "CONNECTING"]
    /\ tasks = <<>>
    /\ sent = [o \in Observers |-> <<>>]
    /\ responses = <<>>
    /\ received = [seq |-> 0, ws |-> 0, frame |-> NoFrame]
    /\ started = 0
    /\ accepted = <<>>
    /\ clearCount = 0

Response(route, status, id, sentId, audience) ==
    [route |-> route, status |-> status, id |-> id,
     \* history: the id of the record the handler broadcast, and the clients
     \* that were OPEN when it did
     broadcast |-> sentId, audience |-> audience]

\* ------------------------------------------------- wss.on('connection')
\* The connection handler: the socket joins clients, sendInitialData runs
\* up to its first await (getProcesses has been called).
Connect(o) ==
    /\ CanStart
    /\ readyState[o] = "CONNECTING"
    /\ readyState' = [readyState EXCEPT ![o] = "OPEN"]
    /\ clients' = clients \cup {o}
    /\ tasks' = Append(tasks, [Task("connection", "getEvents", o, NoBody)
                                 EXCEPT !.processes = refsOf(processes)])
    /\ UNCHANGED <<processes, events, processCurrentId, eventCurrentId, now, sent,
                   responses, received, started, accepted, clearCount>>

\* sendInitialData: storage.getEvents(100, 0).
SnapshotEvents(i) ==
    /\ tasks[i].kind = "connection" /\ tasks[i].pc = "getEvents"
    /\ tasks' = [tasks EXCEPT ![i] =
                    [@ EXCEPT !.events = getEvents(events, DefaultLimit, 0),
                              !.epoch = clearCount, !.pc = "getTotal"]]
    /\ UNCHANGED <<processes, events, processCurrentId, eventCurrentId, now, clients,
                   readyState, sent, responses, received, started, accepted,
                   clearCount>>

\* sendInitialData: storage.getTotalMessageCount().
SnapshotTotal(i) ==
    /\ tasks[i].kind = "connection" /\ tasks[i].pc = "getTotal"
    /\ tasks' = [tasks EXCEPT ![i] =
                    [@ EXCEPT !.totalMessages = getTotalMessageCount(events),
                              !.pc = "getActive"]]
    /\ UNCHANGED <<processes, events, processCurrentId, eventCurrentId, now, clients,
                   readyState, sent, responses, received, started, accepted,
                   clearCount>>

\* sendInitialData: storage.getActiveProcessCount() (and
\* getAverageResponseTime, which reads nothing).
SnapshotActive(i) ==
    /\ tasks[i].kind = "connection" /\ tasks[i].pc = "getActive"
    /\ tasks' = [tasks EXCEPT ![i] =
                    [@ EXCEPT !.activeProcesses = getActiveProcessCount(events, now),
                              !.pc = "send"]]
    /\ UNCHANGED <<processes, events, processCurrentId, eventCurrentId, now, clients,
                   readyState, sent, responses, received, started, accepted,
                   clearCount>>

initialData(t) ==
    Message("initial_data",
            [processes |-> serialize(processes, t.processes), events |-> t.events,
             stats |-> [totalMessages |-> t.totalMessages,
                        activeProcesses |-> t.activeProcesses,
                        avgResponseTime |-> AvgResponseSample]])

\* sendInitialData: sendToClient(ws, 'initial_data', initialData).
SnapshotSend(i) ==
    /\ tasks[i].kind = "connection" /\ tasks[i].pc = "send"
    /\ sent' = sendToClient(sent, readyState, tasks[i].ws, initialData(tasks[i]))
    /\ tasks' = RemoveAt(tasks, i)
    /\ UNCHANGED <<processes, events, processCurrentId, eventCurrentId, now, clients,
                   readyState, responses, received, started, accepted, clearCount>>

\* The peer starts the closing handshake: the socket is no longer OPEN, the
\* 'close' event has not been emitted yet.
CloseFrame(o) ==
    /\ readyState[o] = "OPEN"
    /\ readyState' = [readyState EXCEPT ![o] = "CLOSING"]
    /\ UNCHANGED <<processes, events, processCurrentId, eventCurrentId, now, clients,
                   tasks, sent, responses, received, started, accepted, clearCount>>

\* ws.on('close'): the socket is CLOSED and leaves clients.
OnClose(o) ==
    /\ readyState[o] \in {"OPEN", "CLOSING"}
    /\ readyState' = [readyState EXCEPT ![o] = "CLOSED"]
    /\ clients' = clients \ {o}
    /\ UNCHANGED <<processes, events, processCurrentId, eventCurrentId, now, tasks,
                   sent, responses, received, started, accepted, clearCount>>

\* ------------------------------------------------------- handleCreateEvent
\* handleCreateEvent up to the await inside updateProcessMessageCount:
\* createEvent has taken the next id and stored the record, getProcessByPid
\* has found the record to increment.
startCreate(t, data) ==
    [t EXCEPT !.newEvent = createEvent(data, eventCurrentId, now),
              !.process = getProcessByPid(processes, data.sourcePid),
              !.born = clearCount,
              !.pc = "increment"]

Accepted(route, data) ==
    [route |-> route, sourcePid |-> data.sourcePid, at |-> processCurrentId]

\* ws.on('message'): JSON.parse, wsMessageSchema.parse, then
\* handleCreateEvent for a create_event; every failure is caught and logged.
OnMessage(o, frame) ==
    /\ CanStart
    /\ started < MaxTasks
    /\ readyState[o] = "OPEN"
    /\ started' = started + 1
    /\ received' = [seq |-> started + 1, ws |-> o, frame |-> frame]
    /\ IF /\ wsMessageSchemaAccepts(frame)
          /\ frame.type = "create_event"
          /\ insertIpcEventSchemaAccepts(frame.data)
       THEN /\ events' = Append(events, createEvent(frame.data, eventCurrentId, now))
            /\ eventCurrentId' = eventCurrentId + 1
            /\ tasks' = Append(tasks, startCreate(Task("message", "", o, frame.data),
                                                  frame.data))
            /\ accepted' = Append(accepted, Accepted("ws", frame.data))
       ELSE UNCHANGED <<events, eventCurrentId, tasks, accepted>>
    /\ UNCHANGED <<processes, processCurrentId, now, clients, readyState, sent,
                   responses, clearCount>>

\* app.post('/api/events') up to the await inside its own createEvent.
PostEvent(body) ==
    /\ CanStart
    /\ started < MaxTasks
    /\ started' = started + 1
    /\ IF insertIpcEventSchemaAccepts(body)
       THEN /\ events' = Append(events, createEvent(body, eventCurrentId, now))
            /\ eventCurrentId' = eventCurrentId + 1
            /\ tasks' = Append(tasks,
                   [Task("postEvent", "increment1", 0, body)
                      EXCEPT !.first = createEvent(body, eventCurrentId, now),
                             !.process = getProcessByPid(processes, body.sourcePid)])
            /\ accepted' = Append(accepted, Accepted("rest", body))
            /\ UNCHANGED responses
       ELSE /\ responses' = Append(responses, Response("postEvent", 400, 0, 0, {}))
            /\ UNCHANGED <<events, eventCurrentId, tasks, accepted>>
    /\ UNCHANGED <<processes, processCurrentId, now, clients, readyState, sent,
                   received, clearCount>>

\* The route's createEvent resumes in updateProcessMessageCount.
RestIncrement(i) ==
    /\ tasks[i].kind = "postEvent" /\ tasks[i].pc = "increment1"
    /\ processes' = updateProcessMessageCount(processes, tasks[i].process, 1)
    /\ tasks' = [tasks EXCEPT ![i] = [@ EXCEPT !.pc = "handle"]]
    /\ UNCHANGED <<events, processCurrentId, eventCurrentId, now, clients, readyState,
                   sent, responses, received, started, accepted, clearCount>>

\* The route resumes and calls handleCreateEvent(eventData).
RestHandle(i) ==
    /\ tasks[i].kind = "postEvent" /\ tasks[i].pc = "handle"
    /\ IF insertIpcEventSchemaAccepts(tasks[i].data)
       THEN /\ events' = Append(events, createEvent(tasks[i].data, eventCurrentId, now))
            /\ eventCurrentId' = eventCurrentId + 1
            /\ tasks' = [tasks EXCEPT ![i] = startCreate(@, tasks[i].data)]
            /\ UNCHANGED responses
       ELSE /\ responses' = Append(responses,
                   Response("postEvent", 201, tasks[i].first.id, 0, {}))
            /\ tasks' = RemoveAt(tasks, i)
            /\ UNCHANGED <<events, eventCurrentId>>
    /\ UNCHANGED <<processes, processCurrentId, now, clients, readyState, sent,
                   received, started, accepted, clearCount>>

\* createEvent resumes in updateProcessMessageCount: the count of the
\* record found before the await is incremented.
EventIncrement(i) ==
    /\ tasks[i].kind \in {"message", "postEvent"} /\ tasks[i].pc = "increment"
    /\ processes' = updateProcessMessageCount(processes, tasks[i].process, 1)
    /\ tasks' = [tasks EXCEPT ![i] = [@ EXCEPT !.pc = "getTotal"]]
    /\ UNCHANGED <<events, processCurrentId, eventCurrentId, now, clients, readyState,
                   sent, responses, received, started, accepted, clearCount>>

\* handleCreateEvent: storage.getTotalMessageCount().
EventTotal(i) ==
    /\ tasks[i].kind \in {"message", "postEvent"} /\ tasks[i].pc = "getTotal"
    /\ tasks' = [tasks EXCEPT ![i] =
                    [@ EXCEPT !.totalMessages = getTotalMessageCount(events),
                              !.epoch = clearCount, !.pc = "getActive"]]
    /\ UNCHANGED <<processes, events, processCurrentId, eventCurrentId, now, clients,
                   readyState, sent, responses, received, started, accepted,
                   clearCount>>

\* handleCreateEvent: storage.getActiveProcessCount() (and
\* getAverageResponseTime).
EventActive(i) ==
    /\ tasks[i].kind \in {"message", "postEvent"} /\ tasks[i].pc = "getActive"
    /\ tasks' = [tasks EXCEPT ![i] =
                    [@ EXCEPT !.activeProcesses = getActiveProcessCount(events, now),
                              !.pc = "getTop"]]
    /\ UNCHANGED <<processes, events, processCurrentId, eventCurrentId, now, clients,
                   readyState, sent, responses, received, started, accepted,
                   clearCount>>

\* handleCreateEvent: storage.getTopProcesses(5).
EventTop(i) ==
    /\ tasks[i].kind \in {"message", "postEvent"} /\ tasks[i].pc = "getTop"
    /\ tasks' = [tasks EXCEPT ![i] =
                    [@ EXCEPT !.topProcesses = refsOf(getTopProcesses(processes, TopLimit)),
                              !.top = getTopProcesses(processes, TopLimit),
                              !.pc = "broadcast"]]
    /\ UNCHANGED <<processes, events, processCurrentId, eventCurrentId, now, clients,
                   readyState, sent, responses, received, started, accepted,
                   clearCount>>

\* handleCreateEvent: the two broadcasts; the route then answers 201 with
\* the record of its own createEvent.
EventBroadcast(i) ==
    /\ tasks[i].kind \in {"message", "postEvent"} /\ tasks[i].pc = "broadcast"
    /\ sent' = broadcast(
                   broadcast(sent, clients, readyState,
                             Message("new_event", tasks[i].newEvent)),
                   clients, readyState,
                   Message("stats_update",
                           Stats(tasks[i].totalMessages, tasks[i].activeProcesses,
                                 serialize(processes, tasks[i].topProcesses))))
    /\ responses' =
          IF tasks[i].kind = "postEvent"
          THEN Append(responses, Response("postEvent", 201, tasks[i].first.id,
                                          tasks[i].newEvent.id, Audience))
          ELSE responses
    /\ tasks' = RemoveAt(tasks, i)
    /\ UNCHANGED <<processes, events, processCurrentId, eventCurrentId, now, clients,
                   readyState, received, started, accepted, clearCount>>

\* -------------------------------------------------- app.post('/api/processes')
PostProcess(body) ==
    /\ CanStart
    /\ started < MaxTasks
    /\ started' = started + 1
    /\ IF insertProcessSchemaAccepts(body)
       THEN /\ processes' = Append(processes, createProcess(body, processCurrentId, now))
            /\ processCurrentId' = processCurrentId + 1
            /\ tasks' = Append(tasks, [Task("postProcess", "broadcast", 0, NoBody)
                                         EXCEPT !.process = processCurrentId])
            /\ UNCHANGED responses
       ELSE /\ responses' = Append(responses, Response("postProcess", 400, 0, 0, {}))
            /\ UNCHANGED <<processes, processCurrentId, tasks>>
    /\ UNCHANGED <<events, eventCurrentId, now, clients, readyState, sent, received,
                   accepted, clearCount>>

\* The route resumes: broadcast('new_process', newProcess) and the 201.
ProcessBroadcast(i) ==
    /\ tasks[i].kind = "postProcess" /\ tasks[i].pc = "broadcast"
    /\ sent' = broadcast(sent, clients, readyState,
                         Message("new_process", processes[tasks[i].process]))
    /\ responses' = Append(responses, Response("postProcess", 201, tasks[i].process,
                                               tasks[i].process, Audience))
    /\ tasks' = RemoveAt(tasks, i)
    /\ UNCHANGED <<processes, events, processCurrentId, eventCurrentId, now, clients,
                   readyState, received, started, accepted, clearCount>>

\* -------------------------------------------------- app.delete('/api/events')
\* The route up to its first await: clearEvents has no await of its own and
\* runs as one step.
DeleteEvents ==
    /\ CanStart
    /\ started < MaxTasks
    /\ started' = started + 1
    /\ events' = <<>>
    /\ processes' = clearEvents(processes)
    /\ clearCount' = clearCount + 1
    /\ tasks' = Append(tasks, Task("deleteEvents", "cleared", 0, NoBody))
    /\ UNCHANGED <<processCurrentId, eventCurrentId, now, clients, readyState, sent,
                   responses, received, accepted>>

\* broadcast('events_cleared', {}), then storage.getTotalMessageCount().
ClearNotify(i) ==
    /\ tasks[i].kind = "deleteEvents" /\ tasks[i].pc = "cleared"
    /\ sent' = broadcast(sent, clients, readyState,
                         Message("events_cleared", [cleared |-> TRUE]))
    /\ tasks' = [tasks EXCEPT ![i] =
                    [@ EXCEPT !.totalMessages = getTotalMessageCount(events),
                              !.pc = "getActive"]]
    /\ UNCHANGED <<processes, events, processCurrentId, eventCurrentId, now, clients,
                   readyState, responses, received, started, accepted, clearCount>>

\* storage.getActiveProcessCount() (and getAverageResponseTime).
ClearActive(i) ==
    /\ tasks[i].kind = "deleteEvents" /\ tasks[i].pc = "getActive"
    /\ tasks' = [tasks EXCEPT ![i] =
                    [@ EXCEPT !.activeProcesses = getActiveProcessCount(events, now),
                              !.top = getTopProcesses(processes, TopLimit),
                              !.pc = "broadcast"]]
    /\ UNCHANGED <<processes, events, processCurrentId, eventCurrentId, now, clients,
                   readyState, sent, responses, received, started, accepted,
                   clearCount>>

\* broadcast('stats_update', {..., topProcesses: []}) and the 200.
ClearStats(i) ==
    /\ tasks[i].kind = "deleteEvents" /\ tasks[i].pc = "broadcast"
    /\ sent' = broadcast(sent, clients, readyState,
                         Message("stats_update",
                                 Stats(tasks[i].totalMessages, tasks[i].activeProcesses,
                                       <<>>)))
    /\ responses' = Append(responses, Response("deleteEvents", 200, 0, 0, Audience))
    /\ tasks' = RemoveAt(tasks, i)
    /\ UNCHANGED <<processes, events, processCurrentId, eventCurrentId, now, clients,
                   readyState, received, started, accepted, clearCount>>

\* ---------------------------------------------------------- specification
Next ==
    \/ \E o \in Observers : Connect(o)
    \/ \E o \in Observers : CloseFrame(o)
    \/ \E o \in Observers : OnClose(o)
    \/ \E o \in Observers, frame \in Frames : OnMessage(o, frame)
    \/ \E body \in EventBodies : PostEvent(body)
    \/ \E body \in ProcessBodies : PostProcess(body)
    \/ DeleteEvents
    \/ \E i \in 1..Len(tasks) : SnapshotEvents(i)
    \/ \E i \in 1..Len(tasks) : SnapshotTotal(i)
    \/ \E i \in 1..Len(tasks) : SnapshotActive(i)
    \/ \E i \in 1..Len(tasks) : SnapshotSend(i)
    \/ \E i \in 1..Len(tasks) : RestIncrement(i)
    \/ \E i \in 1..Len(tasks) : RestHandle(i)
    \/ \E i \in 1..Len(tasks) : EventIncrement(i)
    \/ \E i \in 1..Len(tasks) : EventTotal(i)
    \/ \E i \in 1..Len(tasks) : EventActive(i)
    \/ \E i \in 1..Len(tasks) : EventTop(i)
    \/ \E i \in 1..Len(tasks) : EventBroadcast(i)
    \/ \E i \in 1..Len(tasks) : ProcessBroadcast(i)
    \/ \E i \in 1..Len(tasks) : ClearNotify(i)
    \/ \E i \in 1..Len(tasks) : ClearActive(i)
    \/ \E i \in 1..Len(tasks) : ClearStats(i)

Spec == Init /\ [][Next]_vars

\* The REST routes that write to the store, with no observer connected.
NextStore ==
    \/ \E body \in EventBodies : PostEvent(body)
    \/ \E body \in ProcessBodies : PostProcess(body)
    \/ DeleteEvents
    \/ \E i \in 1..Len(tasks) : RestIncrement(i)
    \/ \E i \in 1..Len(tasks) : RestHandle(i)
    \/ \E i \in 1..Len(tasks) : EventIncrement(i)
    \/ \E i \in 1..Len(tasks) : EventTotal(i)
    \/ \E i \in 1..Len(tasks) : EventActive(i)
    \/ \E i \in 1..Len(tasks) : EventTop(i)
    \/ \E i \in 1..Len(tasks) : EventBroadcast(i)
    \/ \E i \in 1..Len(tasks) : ProcessBroadcast(i)
    \/ \E i \in 1..Len(tasks) : ClearNotify(i)
    \/ \E i \in 1..Len(tasks) : ClearActive(i)
    \/ \E i \in 1..Len(tasks) : ClearStats(i)

SpecStore == Init /\ [][NextStore]_vars

\* --------------------------------------------------------- the read routes
\* The read routes are checked on stores drawn from bounded sets: the
\* MemStorage states of up to max createEvent calls whose inputs are drawn
\* from choices, a set of [body, timestamp] pairs.  No other handler runs in
\* these specifications, so a route's reads are one step, and a run is one
\* request.
EventBody(sourcePid, targetPid, messageType, status) ==
    [sourcePid |-> sourcePid, targetPid |-> targetPid, messageType |-> messageType,
     status |-> status, absent |-> {}]

EventStores(choices, max) ==
    UNION {{[i \in 1..n |-> createEvent(choice[i].body, i, choice[i].timestamp)] :
               choice \in [1..n -> choices]} : n \in 0..max}

\* The state of the server with the store (procs, evs) at time clock, no
\* observer and no request yet.
ServerWith(procs, evs, clock) ==
    /\ processes = procs
    /\ events = evs
    /\ processCurrentId = Len(procs) + 1
    /\ eventCurrentId = Len(evs) + 1
    /\ now = clock
    /\ clients = {}
    /\ readyState = [o \in Observers |-> "CONNECTING"]
    /\ tasks = <<>>
    /\ sent = [o \in Observers |-> <<>>]
    /\ responses = <<>>
    /\ received = [seq |-> 0, ws |-> 0, frame |-> NoFrame]
    /\ started = 0
    /\ accepted = <<>>
    /\ clearCount = 0

\* parseInt(req.query[name]) || default: a query parameter that is absent
\* parses to NaN, and NaN and 0 are both replaced by the default.
queryInt(query, name, default) ==
    IF name \in query.absent \/ query[name] = 0 THEN default ELSE query[name]

\* ------------------------------------------------------ app.get('/api/events')
ListStamps == (StartTime - MaxStamp + 1)..StartTime

ListQueries ==
    [limit : 0..(MaxEvents + 1), offset : 0..(MaxEvents + 1),
     absent : SUBSET {"limit", "offset"}]

\* The events of the route's response to query.
listEvents(evs, query) ==
    getEvents(evs, queryInt(query, "limit", DefaultLimit), queryInt(query, "offset", 0))

GetEvents(query) ==
    /\ responses = <<>>
    /\ responses' =
          << [route |-> "getEvents", status |-> 200, query |-> query,
              events |-> listEvents(events, query),
              total |-> getTotalMessageCount(events),
              limit |-> queryInt(query, "limit", DefaultLimit),
              offset |-> queryInt(query, "offset", 0)] >>
    /\ UNCHANGED <<processes, events, processCurrentId, eventCurrentId, now, clients,
                   readyState, tasks, sent, received, started, accepted, clearCount>>

InitList ==
    \E evs \in EventStores([body : {EventBody(100, 1234, "REQUEST", "SUCCESS")},
                               timestamp : ListStamps], MaxEvents) :
        ServerWith(seededProcesses, evs, StartTime)

NextList == \E query \in ListQueries : GetEvents(query)

SpecList == InitList /\ [][NextList]_vars

\* ----------------------------------------------- app.get('/api/events/filter')
\* getEventsFiltered: each criterion is applied if its value is truthy
\* (a pid other than 0, a nonempty string, a timeRange object), then the
\* sort by timestamp descending.
getEventsFiltered(evs, filter) ==
    LET byPid(e) ==
            ("pid" \notin filter.absent /\ filter.pid # 0) =>
                (e.sourcePid = filter.pid \/ e.targetPid = filter.pid)
        byType(e) ==
            ("type" \notin filter.absent /\ filter.type # "") =>
                e.messageType = filter.type
        byStatus(e) ==
            ("status" \notin filter.absent /\ filter.status # "") =>
                e.status = filter.status
        byTime(e) ==
            "timeRange" \notin filter.absent =>
                (e.timestamp >= filter.timeRange.start /\ e.timestamp <= filter.timeRange.end)
        filteredEvents ==
            SelectSeq(SelectSeq(SelectSeq(SelectSeq(evs, byPid), byType), byStatus), byTime)
        sorted ==
            sortDesc([i \in 1..Len(filteredEvents) |->
                         [k |-> filteredEvents[i].timestamp, v |-> filteredEvents[i]]])
    IN  [i \in 1..Len(sorted) |-> sorted[i].v]

\* The filter the route builds from the query string: a parameter is
\* copied if it is present and not the empty string, the timeRange if both
\* of its ends are.
filterOf(query) ==
    [pid |-> query.pid, type |-> query.type, status |-> query.status,
     timeRange |-> [start |-> query.startTime, end |-> query.endTime],
     absent |-> {name \in {"pid", "type", "status"} :
                    name \in query.absent \/ (name # "pid" /\ query[name] = "")}
                \cup (IF {"startTime", "endTime"} \cap query.absent = {} THEN {}
                      ELSE {"timeRange"})]

FilterStamps == {StartTime - 1, StartTime}

FilterBodies ==
    {EventBody(p[1], p[2], t, s) :
        p \in {<<0, 100>>, <<100, 1234>>}, t \in {"REQUEST", "RESPONSE"},
        s \in {"SUCCESS", "ERROR"}}

\* The query strings: every parameter present or not, the two ends of the
\* time range together; an absent parameter has one placeholder value.
FilterQueries ==
    {query \in
        [pid : {0, 100, 1234}, type : {"", "REQUEST", "RESPONSE"},
         status : {"", "SUCCESS", "ERROR"},
         startTime : FilterStamps, endTime : FilterStamps,
         absent : {a \cup b : a \in SUBSET {"pid", "type", "status"},
                              b \in {{}, {"startTime", "endTime"}}}] :
        /\ "pid" \in query.absent => query.pid = 0
        /\ "type" \in query.absent <=> query.type = ""
        /\ "status" \in query.absent <=> query.status = ""
        /\ "startTime" \in query.absent =>
              query.startTime = StartTime /\ query.endTime = StartTime}

GetEventsFiltered(query) ==
    /\ responses = <<>>
    /\ responses' =
          << [route |-> "getEventsFiltered", status |-> 200, query |-> query,
              events |-> getEventsFiltered(events, filterOf(query))] >>
    /\ UNCHANGED <<processes, events, processCurrentId, eventCurrentId, now, clients,
                   readyState, tasks, sent, received, started, accepted, clearCount>>

InitFilter ==
    \E evs \in EventStores([body : FilterBodies, timestamp : FilterStamps], MaxFiltered) :
        ServerWith(seededProcesses, evs, StartTime)

NextFilter == \E query \in FilterQueries : GetEventsFiltered(query)

SpecFilter == InitFilter /\ [][NextFilter]_vars

\* ----------------------------------------------------- the store operations
\* The operations of MemStorage called one after the other, each awaited
\* to its end, on the store as the constructor leaves it.
CreateProcess(insertProcess) ==
    /\ Len(processes) < Len(sampleProcesses) + MaxRegistered
    /\ processes' = Append(processes, createProcess(insertProcess, processCurrentId, now))
    /\ processCurrentId' = processCurrentId + 1
    /\ UNCHANGED <<events, eventCurrentId, now, clients, readyState, tasks, sent,
                   responses, received, started, accepted, clearCount>>

\* createEvent with its updateProcessMessageCount.
CreateEvent(insertEvent) ==
    /\ Len(accepted) < MaxIngest
    /\ events' = Append(events, createEvent(insertEvent, eventCurrentId, now))
    /\ eventCurrentId' = eventCurrentId + 1
    /\ processes' = updateProcessMessageCount(
                        processes, getProcessByPid(processes, insertEvent.sourcePid), 1)
    /\ accepted' = Append(accepted, Accepted("store", insertEvent))
    /\ UNCHANGED <<processCurrentId, now, clients, readyState, tasks, sent, responses,
                   received, started, clearCount>>

\* getTopProcesses(limit); responses holds the latest result.
GetTopProcesses(limit) ==
    /\ responses' =
          << [route |-> "getTopProcesses", status |-> 200, limit |-> limit,
              processes |-> getTopProcesses(processes, limit)] >>
    /\ UNCHANGED <<processes, events, processCurrentId, eventCurrentId, now, clients,
                   readyState, tasks, sent, received, started, accepted, clearCount>>

TopProcessBodies ==
    { [pid |-> 100, name |-> "alpha", type |-> "", messageCount |-> 0,
       absent |-> {"type", "messageCount"}],
      [pid |-> 200, name |-> "beta", type |-> "", messageCount |-> 0,
       absent |-> {"type", "messageCount"}] }

TopEventBodies ==
    {EventBody(100, 200, "REQUEST", "SUCCESS"), EventBody(200, 100, "RESPONSE", "SUCCESS")}

NextTop ==
    \/ \E insertProcess \in TopProcessBodies : CreateProcess(insertProcess)
    \/ \E insertEvent \in TopEventBodies : CreateEvent(insertEvent)
    \/ \E limit \in 0..(Len(processes) + 1) : GetTopProcesses(limit)

SpecTop == Init /\ [][NextTop]_vars

\* Time passes: a minute or an hour.
Tick(minutes) ==
    /\ ((now - StartTime) \div OneHour) + ((now - StartTime) % OneHour) < MaxTicks
    /\ now' = now + minutes
    /\ UNCHANGED <<processes, events, processCurrentId, eventCurrentId, clients,
                   readyState, tasks, sent, responses, received, started, accepted,
                   clearCount>>

\* getActiveProcessCount(); responses holds the latest result, with the
\* clock and the number of events it was computed at (history).
GetActiveProcessCount ==
    /\ responses' =
          << [route |-> "getActiveProcessCount", status |-> 200,
              activeProcesses |-> getActiveProcessCount(events, now),
              clock |-> now, total |-> Len(events)] >>
    /\ UNCHANGED <<processes, events, processCurrentId, eventCurrentId, now, clients,
                   readyState, tasks, sent, received, started, accepted, clearCount>>

NextActive ==
    \/ \E minutes \in {1, OneHour} : Tick(minutes)
    \/ CreateEvent(EventBody(100, 200, "REQUEST", "SUCCESS"))
    \/ GetActiveProcessCount

SpecActive == Init /\ [][NextActive]_vars

\* ------------------------------------------------------------------ claims
RequiredEventFields == {"sourcePid", "targetPid", "messageType", "status"}

Last(s) == s[Len(s)]

\* The messages a step appends to the log of observer o.
NewMessages(o) == {k \in 1..Len(sent'[o]) : k > Len(sent[o])}

\* The create-event requests accepted with the pid of process p as
\* sourcePid.
IngestedFor(p) == {k \in 1..Len(accepted) : accepted[k].sourcePid = p.pid}

\* Process p was registered through the route, before every request that
\* names its pid was accepted.
RegisteredFirst(p) ==
    /\ p.id > Len(sampleProcesses)
    /\ \A k \in IngestedFor(p) : accepted[k].at > p.id

\* C1: with no handler in progress and no clear so far, every process
\* registered through the route (before the requests that name it) has a
\* messageCount equal to the number of create-event requests accepted with
\* its pid as sourcePid.
C1_CountEqualsIngested ==
    (Idle /\ clearCount = 0) =>
        \A i \in 1..Len(processes) :
            RegisteredFirst(processes[i]) =>
                processes[i].messageCount = Cardinality(IngestedFor(processes[i]))

\* C2: in every state every process record's messageCount is the number of
\* stored events whose sourcePid is its pid.
C2_CountMatchesStoredEvents ==
    \A i \in 1..Len(processes) :
        processes[i].messageCount =
            Cardinality({k \in 1..Len(events) : events[k].sourcePid = processes[i].pid})

\* C3: in the log of every observer the initial_data message is the first
\* message and the only one of its type.
C3_SnapshotFirstAndOnce ==
    \A o \in Observers : \A k \in 1..Len(sent[o]) :
        (sent[o][k].type = "initial_data") <=> (k = 1)

\* C4: each accepted create-event request adds exactly one event to the
\* store (with no handler in progress and no clear so far, the store holds
\* the seeded events and one event per accepted request), and the record of
\* a 201 response is the record broadcast as new_event.
C4_OneRecordPerRequest ==
    /\ (Idle /\ clearCount = 0) =>
           getTotalMessageCount(events) = Len(sampleEvents) + Len(accepted)
    /\ \A k \in 1..Len(responses) :
           (responses[k].route = "postEvent" /\ responses[k].status = 201) =>
               responses[k].id = responses[k].broadcast

\* C5: a step that sends new_event or new_process to an observer sends a
\* record that is in the store when it is sent.
C5_BroadcastRecordInStore ==
    [][\A o \in Observers : \A k \in NewMessages(o) :
          /\ sent'[o][k].type = "new_event" =>
                \E j \in 1..Len(events') : events'[j].id = sent'[o][k].data.id
          /\ sent'[o][k].type = "new_process" =>
                \E j \in 1..Len(processes') : processes'[j].id = sent'[o][k].data.id
      ]_vars

\* The record of response r, as it is broadcast.
Carries(message, r) ==
    /\ message.type = (IF r.route = "postProcess" THEN "new_process" ELSE "new_event")
    /\ message.data.id = r.id

\* C6: for every record a route has created and answered with 201, every
\* observer that was OPEN when the route broadcast has received the record
\* and, after it, a stats_update.
C6_RecordThenStats ==
    \A k \in 1..Len(responses) :
        responses[k].status = 201 =>
            \A o \in responses[k].audience :
                \E a \in 1..Len(sent[o]) : \E b \in 1..Len(sent[o]) :
                    /\ a < b
                    /\ Carries(sent[o][a], responses[k])
                    /\ sent[o][b].type = "stats_update"

\* C7: the state at the end of clearEvents has no event (getEvents is empty
\* for every limit and offset, getTotalMessageCount is 0) and every process
\* record has messageCount 0.
C7_ClearEmptiesStore ==
    [][clearCount' # clearCount =>
          /\ \A limit \in 0..(eventCurrentId + 1) : \A offset \in 0..(eventCurrentId + 1) :
                getEvents(events', limit, offset) = <<>>
          /\ getEvents(events', DefaultLimit, 0) = <<>>
          /\ getTotalMessageCount(events') = 0
          /\ \A i \in 1..Len(processes') : processes'[i].messageCount = 0
          /\ Len(processes') = Len(processes)
      ]_vars

\* C7 witness: clearEvents has just run on a store that held the seeded
\* events, an ingested event and nonzero counts.
C7_Witness ==
    /\ \E i \in 1..Len(tasks) : tasks[i].kind = "deleteEvents" /\ tasks[i].pc = "cleared"
    /\ clearCount = 1
    /\ eventCurrentId > Len(sampleEvents) + 1
    /\ events = <<>>

\* The step in which task i sends its snapshot or its stats.
Sends(i) ==
    /\ i \in 1..Len(tasks)
    /\ \/ tasks[i].kind = "connection" /\ tasks[i].pc = "send"
       \/ tasks[i].kind \in {"message", "postEvent"} /\ tasks[i].pc = "broadcast"
    /\ tasks' = RemoveAt(tasks, i)
    /\ sent' # sent

\* C8: no initial_data and no stats_update of an ingest combines what was
\* read before a clear (the events, their count) with what is read after it
\* (the counts of the process records, written into the message when it is
\* sent).
C8_NoPartialClearView ==
    [][\A i \in 1..Len(tasks) : Sends(i) => tasks[i].epoch = clearCount]_vars

\* C9: no stored event and no new_event message has a messageType outside
\* MessageTypes or a status outside StatusTypes.
C9_EnumsEnforced ==
    /\ \A k \in 1..Len(events) :
          events[k].messageType \in MessageTypes /\ events[k].status \in StatusTypes
    /\ \A o \in Observers : \A k \in 1..Len(sent[o]) :
          sent[o][k].type = "new_event" =>
              /\ sent[o][k].data.messageType \in MessageTypes
              /\ sent[o][k].data.status \in StatusTypes

\* An inbound frame that is not JSON, has no string type, has a type other
\* than create_event, or is a create_event whose data lacks a required field.
Malformed(frame) ==
    \/ ~frame.json
    \/ ~frame.typed
    \/ frame.type # "create_event"
    \/ frame.data.absent \cap RequiredEventFields # {}

\* C10: the step that handles a malformed inbound frame changes nothing in
\* the store, sends nothing, starts no handler, and leaves the sender OPEN
\* and in clients.
C10_MalformedFrameIgnored ==
    [][(received'.seq # received.seq /\ Malformed(received'.frame)) =>
          /\ UNCHANGED <<processes, events, processCurrentId, eventCurrentId>>
          /\ UNCHANGED <<sent, tasks, clients, readyState>>
          /\ readyState'[received'.ws] = "OPEN"
          /\ received'.ws \in clients'
      ]_vars

\* C10 witness: a create_event frame without its status has been handled.
C10_Witness ==
    /\ received.seq > 0
    /\ received.frame.type = "create_event"
    /\ received.frame.data.absent \cap RequiredEventFields # {}
    /\ readyState[received.ws] = "OPEN"


\* C11: an observer whose socket is CLOSED is not in clients, and a step
\* sends a message (snapshot or broadcast) to an observer only if its
\* socket is OPEN and it is in clients at the time of the send, also when
\* the sending handler was started before the socket closed.
C11_NoSendAfterClose ==
    [][\A o \in Observers :
          /\ readyState'[o] = "CLOSED" => o \notin clients'
          /\ NewMessages(o) # {} => readyState[o] = "OPEN" /\ o \in clients]_vars

\* An observer sent a create_event frame and closed while its handler was
\* suspended: the handler has finished and the observer, which had its
\* snapshot, never got the new_event.
C11_Witness ==
    \E o \in Observers :
        /\ readyState[o] = "CLOSED"
        /\ sent[o] # <<>>
        /\ Len(accepted) = 1 /\ accepted[1].route = "ws"
        /\ Idle
        /\ \A k \in 1..Len(sent[o]) : sent[o][k].type # "new_event"

\* C12: when a step sends new_event to an observer, the next message it
\* sends to that observer is the stats_update of the same handler, and the
\* totalMessages in it was read from a store that contained the event: no
\* clearEvents ran between storing the event and reading the count, and the
\* count is at least 1.
C12_StatsCountsEvent ==
    [][\A o \in Observers : \A k \in NewMessages(o) :
          sent'[o][k].type = "new_event" =>
              /\ k + 1 \in NewMessages(o)
              /\ sent'[o][k + 1].type = "stats_update"
              /\ \E i \in 1..Len(tasks) :
                    /\ Sends(i)
                    /\ tasks[i].newEvent = sent'[o][k].data
                    /\ tasks[i].totalMessages = sent'[o][k + 1].data.totalMessages
                    /\ tasks[i].epoch = tasks[i].born
                    /\ tasks[i].totalMessages >= 1
      ]_vars

\* C13: in the log of every observer, of two stats_update messages with no
\* events_cleared between them the later one has a totalMessages that is
\* not lower.
C13_TotalsNeverDecrease ==
    \A o \in Observers : \A a \in 1..Len(sent[o]) : \A b \in 1..Len(sent[o]) :
        ( /\ a < b
          /\ sent[o][a].type = "stats_update"
          /\ sent[o][b].type = "stats_update"
          /\ \A c \in (a + 1)..(b - 1) : sent[o][c].type # "events_cleared" )
        => sent[o][a].data.totalMessages <= sent[o][b].data.totalMessages

\* The step in which the clear route of task i, resumed after clearEvents,
\* broadcasts events_cleared.
Notifies(i) ==
    /\ i \in 1..Len(tasks)
    /\ tasks[i].kind = "deleteEvents" /\ tasks[i].pc = "cleared"
    /\ Len(tasks') = Len(tasks)
    /\ tasks'[i].pc = "getActive"

\* C14: the clear route, once clearEvents has run, sends events_cleared to
\* every OPEN client, and the step in which it answers sends every OPEN
\* client a stats_update with totalMessages 0 and activeProcesses 0.
C14_ClearSendsZeroedStats ==
    [][/\ \A i \in 1..Len(tasks) :
             Notifies(i) =>
                 \A o \in Audience : \E k \in NewMessages(o) :
                     sent'[o][k].type = "events_cleared"
       /\ ( /\ Len(responses') > Len(responses)
            /\ Last(responses').route = "deleteEvents" ) =>
             /\ Last(responses').status = 200
             /\ \A o \in Audience : \E k \in NewMessages(o) :
                   /\ sent'[o][k].type = "stats_update"
                   /\ sent'[o][k].data.totalMessages = 0
                   /\ sent'[o][k].data.activeProcesses = 0
      ]_vars

\* s holds every event of evs exactly once.
IsPermutation(s, evs) ==
    /\ Len(s) = Len(evs)
    /\ \A i \in 1..Len(evs) : \E j \in 1..Len(s) : s[j] = evs[i]

SortedByTimestampDesc(s) ==
    \A i \in 1..Len(s) : \A j \in 1..Len(s) :
        i < j => s[i].timestamp >= s[j].timestamp

\* The pages the list route returns for a page size at offsets from,
\* from + size, ..., up to the end of the store, concatenated.
RECURSIVE Pages(_, _, _)
Pages(evs, size, from) ==
    IF from >= Len(evs) THEN <<>>
    ELSE listEvents(evs, [limit |-> size, offset |-> from, absent |-> {}])
             \o Pages(evs, size, from + size)

\* The full sequence of the events: the list route asked for all of them.
FullList == listEvents(events, [limit |-> 0, offset |-> 0, absent |-> {"limit", "offset"}])

\* C15: the events returned by the list route for a limit >= 0 and an
\* offset >= 0 are sorted by timestamp descending and are the slice
\* [offset, offset + limit) of the full sequence, which holds every stored
\* event once, sorted by timestamp descending; the pages of size limit at
\* offsets 0, limit, 2 * limit, ... concatenated are the full sequence.
C15_ListIsSliceOfSorted ==
    \A k \in 1..Len(responses) :
        ( /\ responses[k].route = "getEvents"
          /\ responses[k].query.absent = {} ) =>
            LET limit == responses[k].query.limit
                offset == responses[k].query.offset
            IN  /\ IsPermutation(FullList, events)
                /\ SortedByTimestampDesc(FullList)
                /\ SortedByTimestampDesc(responses[k].events)
                /\ responses[k].events =
                      SubSeq(FullList, offset + 1,
                             IF offset + limit < Len(events) THEN offset + limit
                             ELSE Len(events))
                /\ limit >= 1 => Pages(events, limit, 0) = FullList

\* Event e satisfies every criterion the query supplies: pid matches source
\* or target, type and status match exactly, the timestamp lies in the
\* inclusive range.
Satisfies(e, query) ==
    /\ "pid" \notin query.absent =>
          (e.sourcePid = query.pid \/ e.targetPid = query.pid)
    /\ "type" \notin query.absent => e.messageType = query.type
    /\ "status" \notin query.absent => e.status = query.status
    /\ "startTime" \notin query.absent =>
          (query.startTime <= e.timestamp /\ e.timestamp <= query.endTime)

\* C16: the filter route returns exactly the stored events that satisfy
\* all the criteria of the query (for any pid, type, status and inclusive
\* time range, each supplied or omitted), each once, sorted by timestamp
\* descending.
C16_FilterIsIntersection ==
    \A k \in 1..Len(responses) :
        responses[k].route = "getEventsFiltered" =>
            LET result == responses[k].events
                matching == {i \in 1..Len(events) : Satisfies(events[i], responses[k].query)}
            IN  /\ {result[j] : j \in 1..Len(result)} = {events[i] : i \in matching}
                /\ Len(result) = Cardinality(matching)
                /\ SortedByTimestampDesc(result)

\* Record q comes before record p in the order of the top processes: a
\* higher messageCount, or the same messageCount and a lower id.
Before(q, p) ==
    \/ q.messageCount > p.messageCount
    \/ q.messageCount = p.messageCount /\ q.id < p.id

Rank(procs, p) == Cardinality({i \in 1..Len(procs) : Before(procs[i], p)})

\* The events ingested so far with pid as sourcePid.
IngestedFrom(pid) == {k \in 1..Len(accepted) : accepted[k].sourcePid = pid}

\* Exactly 3 events from pid a and 1 from pid b have been ingested, both
\* pids registered (once) before their events.
ThreeAndOne(a, b) ==
    /\ a # b
    /\ Len(accepted) = 4
    /\ Cardinality(IngestedFrom(a)) = 3 /\ Cardinality(IngestedFrom(b)) = 1
    /\ \A pid \in {a, b} :
          /\ Cardinality({i \in 1..Len(processes) : processes[i].pid = pid}) = 1
          /\ \A i \in 1..Len(processes) :
                processes[i].pid = pid =>
                    \A k \in IngestedFrom(pid) : accepted[k].at > processes[i].id

\* C17: getTopProcesses(n) returns min(n, number of processes) records,
\* the j-th being the stored record that has exactly j - 1 records before
\* it in the order by messageCount descending, then id ascending; and once
\* 3 events from pid a and 1 from pid b have been ingested,
\* getTopProcesses(1) is the record with pid a.
C17_TopIsSortedPrefix ==
    [][responses' # responses =>
          LET top == responses'[1].processes
              n == responses'[1].limit
          IN  /\ Len(top) = (IF n < Len(processes) THEN n ELSE Len(processes))
              /\ \A j \in 1..Len(top) :
                    /\ \E i \in 1..Len(processes) : processes[i] = top[j]
                    /\ Rank(processes, top[j]) = j - 1
              /\ \A a \in {100, 200} : \A b \in {100, 200} :
                    (ThreeAndOne(a, b) /\ n = 1) =>
                        (Len(top) = 1 /\ top[1].pid = a)
      ]_vars

StrictlyIncreasingIds(s) ==
    \A i \in 1..Len(s) : \A j \in 1..Len(s) : i < j => s[i].id < s[j].id

\* C18: in every step the process records and the stored events have ids
\* that strictly increase in insertion order (so no two share an id), every
\* id in use is below the store's next id, the next ids never go down (not
\* in a clear either), and a record added by the step gets an id that is
\* not below the next id before the step: no id is assigned twice, the ids
\* of cleared events included.
C18_IdsNeverReused ==
    [][/\ StrictlyIncreasingIds(processes') /\ StrictlyIncreasingIds(events')
       /\ \A i \in 1..Len(processes') : processes'[i].id < processCurrentId'
       /\ \A i \in 1..Len(events') : events'[i].id < eventCurrentId'
       /\ processCurrentId' >= processCurrentId
       /\ eventCurrentId' >= eventCurrentId
       /\ \A i \in 1..Len(processes') :
             i > Len(processes) => processes'[i].id >= processCurrentId
       /\ (events' # events /\ events' # <<>>) => Last(events').id >= eventCurrentId
       /\ Len(processes') >= Len(processes)
       /\ \A i \in 1..Len(processes) : processes'[i].id = processes[i].id
      ]_vars

\* An event stored after a clear that removed the seeded events and an
\* ingested one.
C18_Witness ==
    /\ clearCount = 1
    /\ events # <<>>
    /\ Last(events).id > Len(sampleEvents) + 1

\* The pids that are source or target of a stored event whose timestamp
\* lies in the hour that ends at clock, both ends included.
ActivePids(clock) ==
    {pid \in {events[i].sourcePid : i \in 1..Len(events)} \cup
             {events[i].targetPid : i \in 1..Len(events)} :
        \E i \in 1..Len(events) :
            /\ pid \in {events[i].sourcePid, events[i].targetPid}
            /\ clock - OneHour <= events[i].timestamp
            /\ events[i].timestamp <= clock}

\* C19: getActiveProcessCount called at the instant now returns the number
\* of distinct pids that are source or target of a stored event whose
\* timestamp lies in the hour ending at now; a pid all of whose events are
\* more than one hour old is not among them.
C19_ActiveCountIsWindow ==
    [][responses' # responses =>
          /\ responses'[1].activeProcesses = Cardinality(ActivePids(now))
          /\ \A i \in 1..Len(events) :
                (\A j \in 1..Len(events) :
                     events[i].sourcePid \in {events[j].sourcePid, events[j].targetPid}
                         => events[j].timestamp < now - OneHour)
                => events[i].sourcePid \notin ActivePids(now)
      ]_vars

\* The count was computed on a store that holds an event exactly one hour
\* old, an older one and a newer one of other pids.
C19_Witness ==
    /\ responses # <<>>
    /\ responses[1].clock = now /\ responses[1].total = Len(events)
    /\ \E i \in 1..Len(events) : events[i].timestamp = now - OneHour
    /\ \E i \in 1..Len(events) : events[i].timestamp < now - OneHour
    /\ \E i \in 1..Len(events) :
          /\ events[i].timestamp > now - OneHour
          /\ events[i].sourcePid \notin {events[j].sourcePid : j \in 1..Len(sampleEvents)}
    /\ responses[1].activeProcesses = 4

\* The event whose createEvent task t is suspended in.
Pending(t) == IF t.pc = "increment1" THEN t.first ELSE t.newEvent

InCreateEvent(t) == t.pc \in {"increment1", "increment"}

\* The step in which the createEvent of task i resumes after its await.
Resumes(i) ==
    /\ i \in 1..Len(tasks)
    /\ InCreateEvent(tasks[i])
    /\ Len(tasks') = Len(tasks)
    /\ ~InCreateEvent(tasks'[i])

\* The positions of the process records with that pid.
Matching(pid) == {k \in 1..Len(processes) : processes[k].pid = pid}

Identity(p) ==
    [id |-> p.id, pid |-> p.pid, name |-> p.name, type |-> p.type,
     startTime |-> p.startTime]

\* C21: a step changes no stored event (an event of the store is in the
\* store after the step with the same fields, unless the step is a clear,
\* which removes them all), changes no field of a process record other
\* than messageCount, and removes no process record; a clear leaves the
\* process ids as they are.
C21_OnlyMessageCountChanges ==
    [][/\ clearCount' = clearCount =>
             /\ Len(events') >= Len(events)
             /\ \A k \in 1..Len(events) : events'[k] = events[k]
       /\ clearCount' # clearCount =>
             /\ events' = <<>>
             /\ {processes'[i].id : i \in 1..Len(processes')} =
                    {processes[i].id : i \in 1..Len(processes)}
       /\ Len(processes') >= Len(processes)
       /\ \A i \in 1..Len(processes) :
             Identity(processes'[i]) = Identity(processes[i])
      ]_vars

\* A clear has run on a store with a registered process, and a createEvent
\* that was suspended across it has stored and counted its event since.
C21_Witness ==
    /\ clearCount = 1
    /\ Idle
    /\ events # <<>>
    /\ \E i \in 1..Len(processes) : processes[i].messageCount > 0
    /\ \E i \in 1..Len(processes) : processes[i].messageCount = 0

\* The step in which task i broadcasts its stats_update and ends.
SendsStats(i) ==
    /\ i \in 1..Len(tasks)
    /\ tasks[i].kind \in {"message", "postEvent", "deleteEvents"}
    /\ tasks[i].pc = "broadcast"
    /\ tasks' = RemoveAt(tasks, i)

\* C22: the topProcesses of every stats_update a handler sends, after an
\* insertion or after a clear, is what getTopProcesses(5), the call of the
\* stats route, returns in the store state the handler computed its stats
\* from.
C22_StatsCarryTopProcesses ==
    [][\A i \in 1..Len(tasks) :
          SendsStats(i) =>
              \A o \in Observers : \A k \in NewMessages(o) :
                  sent'[o][k].type = "stats_update" =>
                      sent'[o][k].data.topProcesses = tasks[i].top
      ]_vars

\* C23: the events and the stats of an initial_data message come from one
\* store state: the message holds all the events of that state up to the
\* limit of 100, so the number of its events is its stats.totalMessages,
\* or 100 if that is lower.
C23_SnapshotOfOneState ==
    \A o \in Observers : \A k \in 1..Len(sent[o]) :
        sent[o][k].type = "initial_data" =>
            Len(sent[o][k].data.events) =
                (IF sent[o][k].data.stats.totalMessages < DefaultLimit
                 THEN sent[o][k].data.stats.totalMessages ELSE DefaultLimit)

\* The position of the last events_cleared in the log of observer o, 0 if
\* there is none.
LastCleared(o) ==
    LET cleared == {k \in 1..Len(sent[o]) : sent[o][k].type = "events_cleared"}
    IN  IF cleared = {} THEN 0 ELSE CHOOSE k \in cleared : \A j \in cleared : j <= k

\* The ids of the events delivered to observer o since its last
\* events_cleared, in its initial_data and in new_event messages.
DeliveredIds(o) ==
    UNION {IF sent[o][k].type = "initial_data"
           THEN {sent[o][k].data.events[j].id : j \in 1..Len(sent[o][k].data.events)}
           ELSE IF sent[o][k].type = "new_event" THEN {sent[o][k].data.id}
           ELSE {} : k \in (LastCleared(o) + 1)..Len(sent[o])}

HasSnapshot(o) == \E k \in 1..Len(sent[o]) : sent[o][k].type = "initial_data"

\* C24: whenever no handler is in progress, every observer that is OPEN and
\* has received its initial_data has been delivered, since its last
\* events_cleared, exactly the ids of the events in the store (fewer than
\* 100 events are ever stored).
C24_ViewsConverge ==
    (Idle /\ eventCurrentId <= DefaultLimit) =>
        \A o \in Observers :
            (readyState[o] = "OPEN" /\ HasSnapshot(o)) =>
                DeliveredIds(o) = {events[k].id : k \in 1..Len(events)}

====
